---- MODULE Spec2Model ----
(***************************************************************************)
(* Model of the setup workflow engine of mlflow-demo:                      *)
(*   src/automation/progress_tracker.py  (ProgressTracker, SetupStep)      *)
(*   src/auto-setup.py                   (AutoSetup.run_setup)             *)
(* The tracker keeps one SetupStep per declared step, persists the whole   *)
(* table to .setup_progress.json after every transition and reloads it     *)
(* when a new tracker is constructed.                                      *)
(*                                                                         *)
(* Optional[...] values are modelled as sequences: None is <<>> and a      *)
(* present value v is <<v>>.  A dict is the set of its <<key, value>>      *)
(* pairs.  datetime.now() is a clock that advances with every reading;     *)
(* a call that has to read it past MaxTime is not taken.                   *)
(***************************************************************************)
EXTENDS Integers, Sequences, FiniteSets, TLC

VARIABLES
    step_definitions, \* the declared table, in declaration order
    steps,            \* ProgressTracker.steps : id -> SetupStep
    current_step,     \* ProgressTracker.current_step
    file,             \* content of .setup_progress.json, None when absent
    clock,            \* the last reading of datetime.now()
    last,             \* the last call on the tracker and what it returned
    exec,             \* the process running AutoSetup.run_setup
    scenario          \* how far the calls so far follow the scenario script

vars == <<step_definitions, steps, current_step, file, clock, last, exec, scenario>>

----------------------------------------------------------------------------
(* Bounds *)

MaxTime == 3

----------------------------------------------------------------------------
(* Values *)

None == <<>>
Some(v) == <<v>>

PENDING == "PENDING"
IN_PROGRESS == "IN_PROGRESS"
COMPLETED == "COMPLETED"
FAILED == "FAILED"
SKIPPED == "SKIPPED"

StepStatus == {PENDING, IN_PROGRESS, COMPLETED, FAILED, SKIPPED}

\* StepStatus.<name>.value : the string written to the file
StatusValue(s) ==
    CASE s = PENDING -> "pending"
      [] s = IN_PROGRESS -> "in_progress"
      [] s = COMPLETED -> "completed"
      [] s = FAILED -> "failed"
      [] s = SKIPPED -> "skipped"

\* StepStatus(value) : the enum member of a string read from the file
StatusOfValue(v) == CHOOSE s \in StepStatus : StatusValue(s) = v

\* SetupStep(id, name, description, dependencies=...) with its defaults
SetupStep(id, dependencies) ==
    [id |-> id,
     status |-> PENDING,
     start_time |-> None,
     end_time |-> None,
     duration_seconds |-> None,
     error_message |-> None,
     result_data |-> None,
     dependencies |-> dependencies]

----------------------------------------------------------------------------
(* Definition tables.  Each is a part of the built-in table of              *)
(* _initialize_steps, with the dependencies that fall inside the part.      *)

ChainTable ==
    << [id |-> "validate_prerequisites", dependencies |-> {}],
       [id |-> "detect_environment", dependencies |-> {"validate_prerequisites"}],
       [id |-> "collect_user_input", dependencies |-> {"detect_environment"}] >>

JoinTable ==
    << [id |-> "validate_local_setup", dependencies |-> {}],
       [id |-> "setup_permissions", dependencies |-> {}],
       [id |-> "deploy_app", dependencies |-> {"validate_local_setup", "setup_permissions"}] >>

\* deploy_app is declared before validate_deployment, which does not wait for it
TailTable ==
    << [id |-> "validate_local_setup", dependencies |-> {}],
       [id |-> "deploy_app", dependencies |-> {"validate_local_setup"}],
       [id |-> "validate_deployment", dependencies |-> {}] >>

Tables == {ChainTable, JoinTable, TailTable}

Ids(table) == {table[i].id : i \in DOMAIN table}

\* the arguments the calls are tried with
ResultData == {{<<"env", "prod">>}}
ResultArgs == {Some(d) : d \in ResultData}
ErrorMessages == {"bad input"}
SkipReasons == {"not needed"}

----------------------------------------------------------------------------
(* ProgressTracker *)

\* _initialize_steps: one PENDING SetupStep per declared step
_initialize_steps(table) ==
    [id \in Ids(table) |->
        LET i == CHOOSE j \in DOMAIN table : table[j].id = id
        IN SetupStep(id, table[i].dependencies)]

\* json.dump of a dict: the JSON object with the dict's keys as members
ToJson(d) == [k \in {p[1] : p \in d} |-> (CHOOSE p \in d : p[1] = k)[2]]

\* json.load of a JSON object: the dict of its members
FromJson(obj) == {<<k, obj[k]>> : k \in DOMAIN obj}

\* variant: result_data is left out of what is written
StepDict_NoResult(step) ==
    [step EXCEPT !.status = StatusValue(step.status),
                 !.result_data = None]

\* asdict(step) with status replaced by its value, as json.dump writes it
StepDict(step) ==
    [step EXCEPT !.status = StatusValue(step.status),
                 !.result_data = IF @ = None THEN None ELSE Some(ToJson(@[1]))]

\* the ids of the steps in the order of the dict, which is the declared order
StepOrder(table) == [i \in DOMAIN table |-> table[i].id]

\* _save_progress: the content of a file that was written to its end
_save_progress(table, S, cs) ==
    Some([parses |-> TRUE,
          current_step |-> cs,
          order |-> StepOrder(table),
          steps |-> [id \in DOMAIN S |-> StepDict(S[id])]])

\* a file that json.load rejects: empty, cut short or not JSON
Torn == Some([parses |-> FALSE])

\* whether StepStatus(value) accepts the value
IsStatusValue(v) == \E s \in StepStatus : StatusValue(s) = v

\* variant: a step saved as in_progress is loaded as PENDING
RestoreStep_InProgressAsPending(step_data) ==
    [step_data EXCEPT !.status = IF @ = StatusValue(IN_PROGRESS) THEN PENDING
                                 ELSE StatusOfValue(@),
                      !.result_data = IF @ = None THEN None ELSE Some(FromJson(@[1]))]

\* setattr of every key of a saved step
RestoreStep(step_data) ==
    [step_data EXCEPT !.status = StatusOfValue(step_data.status),
                      !.result_data = IF @ = None THEN None ELSE Some(FromJson(@[1]))]

\* the loop of _load_progress over the saved steps from position i on; a
\* status that StepStatus rejects raises and ends the loop
RECURSIVE LoadFrom(_, _, _)
LoadFrom(S, data, i) ==
    IF i > Len(data.order) THEN S
    ELSE LET step_id == data.order[i]
         IN IF step_id \notin DOMAIN S THEN LoadFrom(S, data, i + 1)
            ELSE IF ~IsStatusValue(data.steps[step_id].status) THEN S
            ELSE LoadFrom([S EXCEPT ![step_id] = RestoreStep(data.steps[step_id])],
                          data, i + 1)

\* _load_progress: saved steps overwrite the declared steps they name; every
\* exception is caught
\* variant: a saved step that the table does not declare is added
_load_progress_KeepUnknown(S, f) ==
    IF f = None THEN S
    ELSE IF ~f[1].parses THEN S
    ELSE LoadFrom([id \in DOMAIN S \cup DOMAIN f[1].steps |->
                      IF id \in DOMAIN S THEN S[id] ELSE SetupStep(id, {})],
                  f[1], 1)

_load_progress(S, f) ==
    IF f = None THEN S
    ELSE IF ~f[1].parses THEN S
    ELSE LoadFrom(S, f[1], 1)

Outcome(ret, S, cs, saved) ==
    [ret |-> ret, steps |-> S, current_step |-> cs, saved |-> saved]

\* variant: the dependency check looks only for the dependency's entry
DependenciesCompleted_DeclaredOnly(S, step_id) ==
    \A dep_id \in S[step_id].dependencies : dep_id \in DOMAIN S

\* the dependency check of start_step
DependenciesCompleted(S, step_id) ==
    \A dep_id \in S[step_id].dependencies :
        dep_id \in DOMAIN S /\ S[dep_id].status = COMPLETED

\* variant: no check for an already completed step
start_step_NoCompletedCheck(S, cs, step_id, now) ==
    IF step_id \notin DOMAIN S THEN Outcome("ValueError", S, cs, FALSE)
    ELSE IF ~DependenciesCompleted(S, step_id) THEN Outcome("False", S, cs, FALSE)
    ELSE Outcome("True",
                 [S EXCEPT ![step_id] =
                     [@ EXCEPT !.status = IN_PROGRESS,
                               !.start_time = Some(now),
                               !.end_time = None,
                               !.duration_seconds = None,
                               !.error_message = None]],
                 Some(step_id), TRUE)

start_step(S, cs, step_id, now) ==
    IF step_id \notin DOMAIN S THEN Outcome("ValueError", S, cs, FALSE)
    ELSE IF S[step_id].status = COMPLETED THEN Outcome("False", S, cs, FALSE)
    ELSE IF ~DependenciesCompleted(S, step_id) THEN Outcome("False", S, cs, FALSE)
    ELSE Outcome("True",
                 [S EXCEPT ![step_id] =
                     [@ EXCEPT !.status = IN_PROGRESS,
                               !.start_time = Some(now),
                               !.end_time = None,
                               !.duration_seconds = None,
                               !.error_message = None]],
                 Some(step_id), TRUE)

\* (end - start).total_seconds() when start_time is set
Duration(step, end) ==
    IF step.start_time # None THEN Some(end - step.start_time[1])
    ELSE step.duration_seconds

\* variant: no check that the step is in progress
complete_step_AnyStatus(S, cs, step_id, result_data, now) ==
    IF step_id \notin DOMAIN S THEN Outcome("ValueError", S, cs, FALSE)
    ELSE Outcome("None",
                 [S EXCEPT ![step_id] =
                     [@ EXCEPT !.status = COMPLETED,
                               !.end_time = Some(now),
                               !.result_data = result_data,
                               !.duration_seconds = Duration(S[step_id], now)]],
                 None, TRUE)

complete_step(S, cs, step_id, result_data, now) ==
    IF step_id \notin DOMAIN S THEN Outcome("ValueError", S, cs, FALSE)
    ELSE IF S[step_id].status # IN_PROGRESS THEN Outcome("None", S, cs, FALSE)
    ELSE Outcome("None",
                 [S EXCEPT ![step_id] =
                     [@ EXCEPT !.status = COMPLETED,
                               !.end_time = Some(now),
                               !.result_data = result_data,
                               !.duration_seconds = Duration(S[step_id], now)]],
                 None, TRUE)

\* variant: only a step in progress can fail, as in complete_step
fail_step_InProgressOnly(S, cs, step_id, error_message, now) ==
    IF step_id \notin DOMAIN S THEN Outcome("ValueError", S, cs, FALSE)
    ELSE IF S[step_id].status # IN_PROGRESS THEN Outcome("None", S, cs, FALSE)
    ELSE Outcome("None",
                 [S EXCEPT ![step_id] =
                     [@ EXCEPT !.status = FAILED,
                               !.end_time = Some(now),
                               !.error_message = Some(error_message),
                               !.duration_seconds = Duration(S[step_id], now)]],
                 None, TRUE)

fail_step(S, cs, step_id, error_message, now) ==
    IF step_id \notin DOMAIN S THEN Outcome("ValueError", S, cs, FALSE)
    ELSE Outcome("None",
                 [S EXCEPT ![step_id] =
                     [@ EXCEPT !.status = FAILED,
                               !.end_time = Some(now),
                               !.error_message = Some(error_message),
                               !.duration_seconds = Duration(S[step_id], now)]],
                 None, TRUE)

\* variant: the step is marked in memory and nothing is saved
skip_step_NoSave(S, cs, step_id, reason) ==
    IF step_id \notin DOMAIN S THEN Outcome("ValueError", S, cs, FALSE)
    ELSE Outcome("None",
                 [S EXCEPT ![step_id] =
                     [@ EXCEPT !.status = SKIPPED,
                               !.error_message = Some(<<"Skipped", reason>>)]],
                 cs, FALSE)

skip_step(S, cs, step_id, reason) ==
    IF step_id \notin DOMAIN S THEN Outcome("ValueError", S, cs, FALSE)
    ELSE Outcome("None",
                 [S EXCEPT ![step_id] =
                     [@ EXCEPT !.status = SKIPPED,
                               !.error_message = Some(<<"Skipped", reason>>)]],
                 cs, TRUE)

\* variant: any() in place of all()
deps_met_Any(S, step_id) ==
    \E dep_id \in S[step_id].dependencies :
        S[dep_id].status \in {COMPLETED, SKIPPED}

\* variant: a failed dependency counts as done
deps_met_Finished(S, step_id) ==
    \A dep_id \in S[step_id].dependencies :
        S[dep_id].status \in {COMPLETED, SKIPPED, FAILED}

\* the dependency check of get_next_step
deps_met(S, step_id) ==
    \A dep_id \in S[step_id].dependencies :
        S[dep_id].status \in {COMPLETED, SKIPPED}

\* self.steps[dep_id] raises KeyError for a dependency that is no key of
\* self.steps.  all() stops at the first dependency that is not satisfied, so
\* the lookup is certain to be made when every declared dependency is
\* satisfied; the tables of this model give an undeclared dependency no
\* companion, where the order of the list would decide.
DepLookupRaises(S, step_id) ==
    /\ \E dep_id \in S[step_id].dependencies : dep_id \notin DOMAIN S
    /\ \A dep_id \in S[step_id].dependencies \cap DOMAIN S :
          S[dep_id].status \in {COMPLETED, SKIPPED}

\* the scan of get_next_step over the steps from position i on
RECURSIVE NextFrom(_, _, _)
NextFrom(table, S, i) ==
    IF i > Len(table) THEN "None"
    ELSE IF S[table[i].id].status \notin {PENDING, FAILED}
         THEN NextFrom(table, S, i + 1)
    ELSE IF DepLookupRaises(S, table[i].id) THEN "KeyError"
    ELSE IF deps_met(S, table[i].id) THEN table[i].id
    ELSE NextFrom(table, S, i + 1)

\* variant: failed steps are not offered again
RECURSIVE NextFrom_PendingOnly(_, _, _)
NextFrom_PendingOnly(table, S, i) ==
    IF i > Len(table) THEN "None"
    ELSE IF S[table[i].id].status = PENDING /\ deps_met(S, table[i].id)
         THEN table[i].id
         ELSE NextFrom_PendingOnly(table, S, i + 1)

get_next_step_PendingOnly(table, S) == NextFrom_PendingOnly(table, S, 1)

get_next_step(table, S) == NextFrom(table, S, 1)

is_setup_complete(S) ==
    \A id \in DOMAIN S : S[id].status \in {COMPLETED, SKIPPED}

\* variant: the steps that wait for the reset step are reset with it
reset_step_Cascade(S, cs, step_id) ==
    IF step_id \notin DOMAIN S THEN Outcome("ValueError", S, cs, FALSE)
    ELSE Outcome("None",
                 [id \in DOMAIN S |->
                     IF id = step_id \/ step_id \in S[id].dependencies
                     THEN SetupStep(id, S[id].dependencies)
                     ELSE S[id]],
                 cs, TRUE)

\* variant: result_data is kept
reset_step_KeepResult(S, cs, step_id) ==
    IF step_id \notin DOMAIN S THEN Outcome("ValueError", S, cs, FALSE)
    ELSE Outcome("None",
                 [S EXCEPT ![step_id] =
                     [@ EXCEPT !.status = PENDING,
                               !.start_time = None,
                               !.end_time = None,
                               !.duration_seconds = None,
                               !.error_message = None]],
                 cs, TRUE)

reset_step(S, cs, step_id) ==
    IF step_id \notin DOMAIN S THEN Outcome("ValueError", S, cs, FALSE)
    ELSE Outcome("None",
                 [S EXCEPT ![step_id] =
                     [@ EXCEPT !.status = PENDING,
                               !.start_time = None,
                               !.end_time = None,
                               !.duration_seconds = None,
                               !.error_message = None,
                               !.result_data = None]],
                 cs, TRUE)

\* reset_all_steps: reset_step on every step, each saving; only then is
\* current_step cleared, and that is not saved
reset_all_steps(S, cs) ==
    Outcome("None",
            [id \in DOMAIN S |-> reset_step(S, cs, id).steps[id]],
            None, FALSE)

----------------------------------------------------------------------------
(* The state machine *)

\* a reading of datetime.now()
Now == clock + 1

\* a call that read the clock has advanced it; no reading goes past limit
TickTo(r, limit) ==
    /\ r.saved => clock < limit
    /\ clock' = IF r.saved THEN Now ELSE clock

Tick(r) == TickTo(r, MaxTime)

\* what happens to the write of _save_progress: it succeeds, open() raises,
\* or the file is opened (and so emptied) and json.dump or write raises
WriteOutcomes == {"ok", "open_fails", "dump_fails"}

\* the file after _save_progress, whose except clause swallows the error
WriteFile(f, table, S, cs, w) ==
    CASE w = "ok" -> _save_progress(table, S, cs)
      [] w = "open_fails" -> f
      [] w = "dump_fails" -> Torn

CallW(op, step_id, arg, ret, w) ==
    [op |-> op, id |-> step_id, arg |-> arg, ret |-> ret, write |-> w]

Call(op, step_id, arg, ret) == CallW(op, step_id, arg, ret, "none")

\* the effect of one call on the tracker, its save with outcome w included
CommitW(op, step_id, arg, r, w) ==
    /\ steps' = r.steps
    /\ current_step' = r.current_step
    /\ file' = IF r.saved
               THEN WriteFile(file, step_definitions, r.steps, r.current_step, w)
               ELSE file
    /\ last' = CallW(op, step_id, arg, r.ret, IF r.saved THEN w ELSE "none")
    /\ UNCHANGED step_definitions

\* the effect of one call on the tracker when the write succeeds
Commit(op, step_id, arg, r) == CommitW(op, step_id, arg, r, "ok")

\* AutoSetup before run_setup is called: no step chosen, config = {},
\* created_resources = {}, no final report shown
NoRun ==
    [pc |-> "none", next_step |-> "None", success |-> TRUE,
     returned |-> "None", outcome |-> "none", resume |-> FALSE,
     config |-> {}, created_resources |-> {}, reported |-> FALSE]

\* the calls are not compared with the scenario script
Off == 0 - 1

\* a first tracker is constructed where there is no file
InitTracker ==
    /\ steps = _initialize_steps(step_definitions)
    /\ current_step = None
    /\ file = None
    /\ clock = 0
    /\ last = Call("__init__", "None", None, "None")

Init ==
    /\ step_definitions \in Tables
    /\ InitTracker
    /\ exec = NoRun
    /\ scenario = Off

\* a new process constructs its tracker: __init__ with _load_progress
Reload ==
    /\ steps' = _load_progress(_initialize_steps(step_definitions), file)
    /\ current_step' = None
    /\ last' = Call("__init__", "None", None, "None")
    /\ UNCHANGED <<step_definitions, file, clock>>

\* the calls with the outcome w of their write and the clock cut off at limit
StartStepW(step_id, w, limit) ==
    LET r == start_step(steps, current_step, step_id, Now)
    IN /\ CommitW("start_step", step_id, None, r, w)
       /\ TickTo(r, limit)

CompleteStepW(step_id, result_data, w, limit) ==
    LET r == complete_step(steps, current_step, step_id, result_data, Now)
    IN /\ CommitW("complete_step", step_id, result_data, r, w)
       /\ TickTo(r, limit)

FailStepW(step_id, error_message, w, limit) ==
    LET r == fail_step(steps, current_step, step_id, error_message, Now)
    IN /\ CommitW("fail_step", step_id, Some(error_message), r, w)
       /\ TickTo(r, limit)

SkipStepW(step_id, reason, w) ==
    /\ CommitW("skip_step", step_id, Some(reason),
               skip_step(steps, current_step, step_id, reason), w)
    /\ UNCHANGED clock

ResetStepW(step_id, w) ==
    /\ CommitW("reset_step", step_id, None, reset_step(steps, current_step, step_id), w)
    /\ UNCHANGED clock

StartStep(step_id) == StartStepW(step_id, "ok", MaxTime)

CompleteStep(step_id, result_data) == CompleteStepW(step_id, result_data, "ok", MaxTime)

FailStep(step_id, error_message) == FailStepW(step_id, error_message, "ok", MaxTime)

SkipStep(step_id, reason) == SkipStepW(step_id, reason, "ok")

GetNextStep ==
    /\ last' = Call("get_next_step", "None", None, get_next_step(step_definitions, steps))
    /\ UNCHANGED <<step_definitions, steps, current_step, file, clock>>

ResetStep(step_id) == ResetStepW(step_id, "ok")

ResetAllSteps ==
    LET r == reset_all_steps(steps, current_step)
    IN /\ steps' = r.steps
       /\ current_step' = r.current_step
       /\ file' = IF DOMAIN steps = {} THEN file
                  ELSE _save_progress(step_definitions, r.steps, current_step)
       /\ last' = Call("reset_all_steps", "None", None, r.ret)
       /\ UNCHANGED <<step_definitions, clock>>

\* the --cleanup command: its process removes the file and exits, so the
\* tracker that follows is a new one, built with no file to load
CleanupProgressFile ==
    /\ file' = None
    /\ steps' = _load_progress(_initialize_steps(step_definitions), None)
    /\ current_step' = None
    /\ last' = Call("cleanup_progress_file", "None", None, "None")
    /\ UNCHANGED <<step_definitions, clock>>

\* the calls are tried with every declared id
CallIds == Ids(step_definitions)

\* a call on the tracker alone: no run_setup is under way
NoExec == UNCHANGED <<exec, scenario>>

Next ==
    \/ Reload /\ NoExec
    \/ \E step_id \in CallIds : StartStep(step_id) /\ NoExec
    \/ \E step_id \in CallIds, result_data \in ResultArgs :
          CompleteStep(step_id, result_data) /\ NoExec
    \/ \E step_id \in CallIds, m \in ErrorMessages : FailStep(step_id, m) /\ NoExec
    \/ \E step_id \in CallIds, reason \in SkipReasons :
          SkipStep(step_id, reason) /\ NoExec
    \/ GetNextStep /\ NoExec
    \/ \E step_id \in CallIds : ResetStep(step_id) /\ NoExec
    \/ ResetAllSteps /\ NoExec
    \/ CleanupProgressFile /\ NoExec

Spec == Init /\ [][Next]_vars

----------------------------------------------------------------------------
(* The chain scenario: the calls on a three step chain, followed against a  *)
(* script                                                                   *)

MaxChainTime == 6

Validate == ChainTable[1].id
Configure == ChainTable[2].id
Deploy == ChainTable[3].id

ChainResultArgs == {Some({}), Some({<<"env", "prod">>})}

ScriptCall(op, step_id, arg) == [op |-> op, id |-> step_id, arg |-> arg]

\* the scenario, each complete and fail after a start of its step
ScenarioScript ==
    << ScriptCall("get_next_step", "None", None),
       ScriptCall("start_step", Validate, None),
       ScriptCall("complete_step", Validate, Some({})),
       ScriptCall("get_next_step", "None", None),
       ScriptCall("start_step", Configure, None),
       ScriptCall("fail_step", Configure, Some("bad input")),
       ScriptCall("get_next_step", "None", None),
       ScriptCall("is_setup_complete", "None", None),
       ScriptCall("start_step", Configure, None),
       ScriptCall("complete_step", Configure, Some({<<"env", "prod">>})),
       ScriptCall("get_next_step", "None", None) >>

\* the position in the script after one more call
Advance(pos, call) ==
    IF /\ pos # Off
       /\ pos < Len(ScenarioScript)
       /\ call.op = ScenarioScript[pos + 1].op
       /\ call.id = ScenarioScript[pos + 1].id
       /\ call.arg = ScenarioScript[pos + 1].arg
    THEN pos + 1
    ELSE Off

IsSetupComplete ==
    /\ last' = Call("is_setup_complete", "None", None,
                    IF is_setup_complete(steps) THEN "True" ELSE "False")
    /\ UNCHANGED <<step_definitions, steps, current_step, file, clock>>

InitChain ==
    /\ step_definitions = ChainTable
    /\ InitTracker
    /\ exec = NoRun
    /\ scenario = 0

\* the call is followed against the script
Followed ==
    /\ scenario' = Advance(scenario, last')
    /\ UNCHANGED exec

NextChain ==
    \/ \E step_id \in CallIds : StartStepW(step_id, "ok", MaxChainTime) /\ Followed
    \/ \E step_id \in CallIds, result_data \in ChainResultArgs :
          CompleteStepW(step_id, result_data, "ok", MaxChainTime) /\ Followed
    \/ \E step_id \in CallIds, m \in ErrorMessages :
          FailStepW(step_id, m, "ok", MaxChainTime) /\ Followed
    \/ GetNextStep /\ Followed
    \/ IsSetupComplete /\ Followed

SpecChain == InitChain /\ [][NextChain]_vars

----------------------------------------------------------------------------
(* The progress file: writes that fail, a process killed while it saves,    *)
(* a file damaged outside the program, and a file left by a release with    *)
(* another table                                                            *)

MaxStoreTime == 2

\* two releases of the table: the later one has validate_deployment where
\* the earlier one had deploy_app
DeployPart ==
    << [id |-> "setup_permissions", dependencies |-> {}],
       [id |-> "deploy_app", dependencies |-> {"setup_permissions"}] >>

ValidatePart ==
    << [id |-> "setup_permissions", dependencies |-> {}],
       [id |-> "validate_deployment", dependencies |-> {"setup_permissions"}] >>

StoreTables == {DeployPart, ValidatePart}

\* a status string that is no StepStatus value
InvalidStatus == "bogus"

TransitionOps == {"start_step", "complete_step", "fail_step", "skip_step", "reset_step"}

TimedOps == {"start_step", "complete_step", "fail_step"}

\* the transition that a call of op on step_id makes
TransitionOf(op, step_id) ==
    CASE op = "start_step" -> start_step(steps, current_step, step_id, Now)
      [] op = "complete_step" ->
            complete_step(steps, current_step, step_id,
                          CHOOSE d \in ResultArgs : TRUE, Now)
      [] op = "fail_step" ->
            fail_step(steps, current_step, step_id,
                      CHOOSE m \in ErrorMessages : TRUE, Now)
      [] op = "skip_step" ->
            skip_step(steps, current_step, step_id,
                      CHOOSE reason \in SkipReasons : TRUE)
      [] op = "reset_step" -> reset_step(steps, current_step, step_id)

\* the processes run one after another: the next one starts at a later time
Later ==
    /\ clock < MaxStoreTime
    /\ clock' = Now

\* where in _save_progress the process can be killed: before open(), after
\* open() has emptied the file and before the last write, after the last write
KillPoints == {"before_open", "in_dump", "after_dump"}

\* the process is killed inside the _save_progress of a transition; the next
\* process builds its tracker from what is in the file
KilledInSave(op, step_id, point) ==
    LET r == TransitionOf(op, step_id)
        left == CASE point = "before_open" -> file
                  [] point = "in_dump" -> Torn
                  [] point = "after_dump" ->
                        _save_progress(step_definitions, r.steps, r.current_step)
    IN /\ r.saved
       /\ Later
       /\ file' = left
       /\ steps' = _load_progress(_initialize_steps(step_definitions), left)
       /\ current_step' = None
       /\ last' = Call("killed_in_save", step_id, Some(point), "None")
       /\ UNCHANGED step_definitions

\* the file is damaged outside the program, between two processes: its text no longer parses, or
\* the status of one entry is no StepStatus value
EditFile ==
    /\ file # None
    /\ file[1].parses
    /\ \/ /\ file' = Some([parses |-> FALSE])
          /\ last' = Call("edit_file", "None", None, "None")
       \/ \E id \in DOMAIN file[1].steps :
            /\ \A other \in DOMAIN file[1].steps :
                  file[1].steps[other].status # InvalidStatus
            /\ file' = Some([file[1] EXCEPT !.steps[id].status = InvalidStatus])
            /\ last' = Call("edit_file", id, None, "None")
    /\ Later
    /\ UNCHANGED <<step_definitions, steps, current_step>>

\* a release with the table `table` is started on the file as it is
Redeploy(table) ==
    /\ table # step_definitions
    /\ step_definitions' = table
    /\ steps' = _load_progress(_initialize_steps(table), file)
    /\ current_step' = None
    /\ last' = Call("__init__", "None", None, "None")
    /\ Later
    /\ UNCHANGED file

InitStore ==
    /\ step_definitions \in StoreTables
    /\ InitTracker
    /\ exec = NoRun
    /\ scenario = Off

NextStore ==
    \/ \E step_id \in CallIds, w \in WriteOutcomes :
          StartStepW(step_id, w, MaxStoreTime) /\ NoExec
    \/ \E step_id \in CallIds, result_data \in ResultArgs, w \in WriteOutcomes :
          CompleteStepW(step_id, result_data, w, MaxStoreTime) /\ NoExec
    \/ \E step_id \in CallIds, m \in ErrorMessages, w \in WriteOutcomes :
          FailStepW(step_id, m, w, MaxStoreTime) /\ NoExec
    \/ \E step_id \in CallIds, reason \in SkipReasons, w \in WriteOutcomes :
          SkipStepW(step_id, reason, w) /\ NoExec
    \/ \E step_id \in CallIds, w \in WriteOutcomes : ResetStepW(step_id, w) /\ NoExec
    \/ \E op \in TransitionOps, step_id \in CallIds, point \in KillPoints :
          KilledInSave(op, step_id, point) /\ NoExec
    \/ EditFile /\ NoExec
    \/ Reload /\ NoExec
    \/ \E table \in StoreTables : Redeploy(table) /\ NoExec

SpecStore == InitStore /\ [][NextStore]_vars

----------------------------------------------------------------------------
(* Two releases that declare the same step with different dependencies,     *)
(* each started on the file that the other left                             *)

\* a release in which deploy_app waits for validate_local_setup, where
\* DeployPart has it wait for setup_permissions
LocalPart ==
    << [id |-> "validate_local_setup", dependencies |-> {}],
       [id |-> "deploy_app", dependencies |-> {"validate_local_setup"}] >>

VersionTables == {DeployPart, LocalPart}

InitVersions ==
    /\ step_definitions \in VersionTables
    /\ InitTracker
    /\ exec = NoRun
    /\ scenario = Off

NextVersions ==
    \/ \E step_id \in CallIds : StartStepW(step_id, "ok", MaxStoreTime) /\ NoExec
    \/ \E step_id \in CallIds, result_data \in ResultArgs :
          CompleteStepW(step_id, result_data, "ok", MaxStoreTime) /\ NoExec
    \/ \E step_id \in CallIds, m \in ErrorMessages :
          FailStepW(step_id, m, "ok", MaxStoreTime) /\ NoExec
    \/ \E step_id \in CallIds, reason \in SkipReasons :
          SkipStepW(step_id, reason, "ok") /\ NoExec
    \/ \E step_id \in CallIds : ResetStepW(step_id, "ok") /\ NoExec
    \/ Reload /\ NoExec
    \/ \E table \in VersionTables : Redeploy(table) /\ NoExec

SpecVersions == InitVersions /\ [][NextVersions]_vars

----------------------------------------------------------------------------
(* AutoSetup.run_setup: the loop that asks the tracker for the next step,   *)
(* starts it, runs its body and records the outcome                         *)

MaxExecTime == 7

\* validate_config .. create_catalog_schema of the built-in table
PreviewTable ==
    << [id |-> "validate_config", dependencies |-> {}],
       [id |-> "show_installation_preview", dependencies |-> {"validate_config"}],
       [id |-> "create_catalog_schema", dependencies |-> {"show_installation_preview"}] >>

\* create_catalog_schema .. create_app of the built-in table
ResourceTable ==
    << [id |-> "create_catalog_schema", dependencies |-> {}],
       [id |-> "create_experiment", dependencies |-> {"create_catalog_schema"}],
       [id |-> "create_app", dependencies |-> {"create_experiment"}] >>

\* setup_permissions .. validate_deployment of the built-in table:
\* validate_deployment is declared after deploy_app and waits only for
\* setup_permissions
ReleaseTable ==
    << [id |-> "setup_permissions", dependencies |-> {}],
       [id |-> "deploy_app", dependencies |-> {"setup_permissions"}],
       [id |-> "validate_deployment", dependencies |-> {"setup_permissions"}] >>

ExecTables == {ChainTable, JoinTable, PreviewTable, ResourceTable, ReleaseTable}

\* the ids that the if/elif chain of run_setup has a branch for
Dispatched ==
    {"validate_prerequisites", "detect_environment", "collect_user_input",
     "validate_config", "create_catalog_schema", "create_experiment",
     "create_app", "setup_permissions", "generate_env_file",
     "install_dependencies", "load_sample_data", "validate_local_setup",
     "deploy_app", "validate_deployment", "run_integration_tests"}

\* what _collect_user_input leaves in self.config
UserConfig == {<<"DATABRICKS_APP_NAME", "demo-app">>}

\* dict.get(key), "None" when the key is absent
Get(d, key) ==
    IF \E p \in d : p[1] = key THEN (CHOOSE p \in d : p[1] = key)[2] ELSE "None"

HasKey(d, key) == \E p \in d : p[1] = key

\* d[key] = value
Put(d, key, value) == {p \in d : p[1] # key} \cup {<<key, value>>}

\* d.update(other)
Update(d, other) == {p \in d : ~HasKey(other, p[1])} \cup other

\* the values that the resource manager hands back in a live run
SchemaName == "main.demo"
ExperimentId == "123456789"
DefaultAppName == "mlflow_demo_app"

\* self.config after the body of step_id has returned True
ConfigAfter(step_id, config) ==
    CASE step_id = "collect_user_input" -> UserConfig
      [] step_id = "create_experiment" -> Put(config, "MLFLOW_EXPERIMENT_ID", ExperimentId)
      [] step_id = "create_app" ->
            IF HasKey(config, "DATABRICKS_APP_NAME") THEN config
            ELSE Put(config, "DATABRICKS_APP_NAME", DefaultAppName)
      [] OTHER -> config

\* self.created_resources after the body of step_id has returned True
CreatedAfter(step_id, config, created_resources) ==
    CASE step_id = "create_catalog_schema" -> Put(created_resources, "schema", SchemaName)
      [] step_id = "create_experiment" ->
            Put(created_resources, "experiment_id", ExperimentId)
      [] step_id = "create_app" ->
            Put(created_resources, "app_name",
                Get(ConfigAfter(step_id, config), "DATABRICKS_APP_NAME"))
      [] OTHER -> created_resources

_get_step_result(step_id, config, created_resources) ==
    CASE step_id = "collect_user_input" -> {<<"config", config>>}
      [] step_id = "create_experiment" ->
            {<<"experiment_id", Get(config, "MLFLOW_EXPERIMENT_ID")>>}
      [] step_id = "create_app" -> {<<"app_name", Get(config, "DATABRICKS_APP_NAME")>>}
      [] step_id = "create_catalog_schema" ->
            {<<"schema", Get(created_resources, "schema")>>}
      [] OTHER -> {}

\* what _restore_config_from_progress takes from the result_data of one
\* completed step
RestoreStepConfig(config, result_data) ==
    LET c1 == IF HasKey(result_data, "config")
              THEN Update(config, Get(result_data, "config")) ELSE config
        c2 == IF HasKey(result_data, "experiment_id")
              THEN Put(c1, "MLFLOW_EXPERIMENT_ID", Get(result_data, "experiment_id"))
              ELSE c1
    IN IF HasKey(result_data, "app_name")
       THEN Put(c2, "DATABRICKS_APP_NAME", Get(result_data, "app_name"))
       ELSE c2

\* the loop of _restore_config_from_progress over the completed steps, in
\* the order of the table, from position i on
RECURSIVE RestoreFrom(_, _, _, _)
RestoreFrom(config, table, S, i) ==
    IF i > Len(table) THEN config
    ELSE LET step == S[table[i].id]
         IN IF /\ step.status = COMPLETED
               /\ step.result_data # None
               /\ step.result_data[1] # {}
            THEN RestoreFrom(RestoreStepConfig(config, step.result_data[1]), table, S, i + 1)
            ELSE RestoreFrom(config, table, S, i + 1)

_restore_config_from_progress(table, S) == RestoreFrom({}, table, S, 1)

\* what a step body can do: return True, return False, raise an Exception
BodyOutcomes == {"success", "failure", "raises"}

\* the outcomes after which run_setup calls fail_step
Halting == {"failure", "raises", "no_branch"}

\* variant: the loop goes on after a failure
AfterBody_NoBreak(outcome) == "loop"

\* where run_setup goes after the body: back to the loop head, or out of it
\* to the final report and the return
AfterBody(outcome) == IF outcome = "success" THEN "loop" ELSE "done"

\* variant: the components are initialised first, and the return on their
\* failure comes before the restoration
ConfigBeforeLoop_InitFirst(resume, components_ok, table, S) ==
    IF resume /\ components_ok THEN _restore_config_from_progress(table, S) ELSE {}

\* self.config when run_setup gets to _initialize_databricks_components: the
\* restoration, on resume, has been done by then
ConfigBeforeLoop(resume, components_ok, table, S) ==
    IF resume THEN _restore_config_from_progress(table, S) ELSE {}

\* a process is started: AutoSetup() builds the tracker from the file, and
\* run_setup(resume) runs up to the loop; it returns False at once when the
\* Databricks components cannot be initialised
NewRun(resume, components_ok) ==
    LET loaded == _load_progress(_initialize_steps(step_definitions), file)
    IN /\ exec.pc \in {"none", "done"}
       /\ steps' = loaded
       /\ current_step' = None
       /\ last' = Call("__init__", "None", None, "None")
       /\ exec' = [pc |-> IF components_ok THEN "loop" ELSE "done",
                   next_step |-> "None",
                   success |-> TRUE,
                   returned |-> IF components_ok THEN "None" ELSE "False",
                   outcome |-> "none",
                   resume |-> resume,
                   config |-> ConfigBeforeLoop(resume, components_ok,
                                               step_definitions, loaded),
                   created_resources |-> {},
                   reported |-> FALSE]
       /\ UNCHANGED <<step_definitions, file, clock>>

\* next_step = get_next_step(); if not next_step: break, and run_setup
\* returns success
ExecGetNextStep ==
    LET next_step == get_next_step(step_definitions, steps)
    IN /\ exec.pc = "loop"
       /\ last' = Call("get_next_step", "None", None, next_step)
       /\ exec' = IF next_step = "None"
                  THEN [exec EXCEPT !.pc = "done",
                                    !.returned = IF exec.success THEN "True" ELSE "False",
                                    !.reported = TRUE]
                  ELSE [exec EXCEPT !.pc = "start", !.next_step = next_step]
       /\ UNCHANGED <<step_definitions, steps, current_step, file, clock>>

\* if not start_step(next_step): continue
ExecStartStep ==
    LET r == start_step(steps, current_step, exec.next_step, Now)
    IN /\ exec.pc = "start"
       /\ Commit("start_step", exec.next_step, None, r)
       /\ TickTo(r, MaxExecTime)
       /\ exec' = [exec EXCEPT !.pc = IF r.ret = "True" THEN "body" ELSE "loop"]

\* the dispatch and the body of the step, with complete_step or fail_step
\* after it; an id with no branch raises ValueError before any body runs
ExecBody(outcome) ==
    LET step_id == exec.next_step
        actual == IF step_id \in Dispatched THEN outcome ELSE "no_branch"
        config == IF actual = "success" THEN ConfigAfter(step_id, exec.config)
                  ELSE exec.config
        created_resources ==
            IF actual = "success"
            THEN CreatedAfter(step_id, exec.config, exec.created_resources)
            ELSE exec.created_resources
        result_data == Some(_get_step_result(step_id, config, created_resources))
        error_message == IF actual = "failure" THEN "Step execution failed"
                         ELSE "Error in step"
        r == IF actual = "success"
             THEN complete_step(steps, current_step, step_id, result_data, Now)
             ELSE fail_step(steps, current_step, step_id, error_message, Now)
    IN /\ exec.pc = "body"
       /\ IF actual = "success"
          THEN Commit("complete_step", step_id, result_data, r)
          ELSE Commit("fail_step", step_id, Some(error_message), r)
       /\ TickTo(r, MaxExecTime)
       /\ exec' = [exec EXCEPT !.pc = AfterBody(actual),
                                !.success = (actual = "success"),
                                !.returned = IF actual = "success" THEN "None" ELSE "False",
                                !.outcome = actual,
                                !.config = config,
                                !.created_resources = created_resources,
                                !.reported = (AfterBody(actual) = "done")]

\* KeyboardInterrupt while the body runs: no tracker call is made, the final
\* report is shown and run_setup returns False
ExecInterrupt ==
    /\ exec.pc = "body"
    /\ exec' = [exec EXCEPT !.pc = "done", !.returned = "False",
                             !.outcome = "interrupt", !.reported = TRUE]
    /\ last' = Call("KeyboardInterrupt", exec.next_step, None, "None")
    /\ UNCHANGED <<step_definitions, steps, current_step, file, clock>>

InitExec ==
    /\ step_definitions \in ExecTables
    /\ InitTracker
    /\ exec = NoRun
    /\ scenario = Off

NextExec ==
    \/ \E resume \in BOOLEAN, components_ok \in BOOLEAN :
          NewRun(resume, components_ok) /\ UNCHANGED scenario
    \/ ExecGetNextStep /\ UNCHANGED scenario
    \/ ExecStartStep /\ UNCHANGED scenario
    \/ \E outcome \in BodyOutcomes : ExecBody(outcome) /\ UNCHANGED scenario
    \/ ExecInterrupt /\ UNCHANGED scenario

SpecExec == InitExec /\ [][NextExec]_vars

----------------------------------------------------------------------------
(* The executor on a store in which steps were skipped through the         *)
(* tracker: skip_step is called by a process of its own while no run_setup  *)
(* is under way                                                             *)

ManualSkip(step_id, reason) ==
    LET loaded == _load_progress(_initialize_steps(step_definitions), file)
        r == skip_step(loaded, None, step_id, reason)
    IN /\ exec.pc \in {"none", "done"}
       /\ steps' = r.steps
       /\ current_step' = r.current_step
       /\ file' = _save_progress(step_definitions, r.steps, r.current_step)
       /\ last' = CallW("skip_step", step_id, Some(reason), r.ret, "ok")
       /\ exec' = NoRun
       /\ UNCHANGED <<step_definitions, clock>>

NextLoop ==
    \/ \E resume \in BOOLEAN, components_ok \in BOOLEAN :
          NewRun(resume, components_ok) /\ UNCHANGED scenario
    \/ ExecGetNextStep /\ UNCHANGED scenario
    \/ ExecStartStep /\ UNCHANGED scenario
    \/ \E outcome \in BodyOutcomes : ExecBody(outcome) /\ UNCHANGED scenario
    \/ ExecInterrupt /\ UNCHANGED scenario
    \/ \E step_id \in CallIds, reason \in SkipReasons :
          ManualSkip(step_id, reason) /\ UNCHANGED scenario

SpecLoop == InitExec /\ [][NextLoop]_vars

----------------------------------------------------------------------------
(* A table that is declared wrongly: a cycle among the dependencies, or a   *)
(* dependency on an id that no step has                                     *)

MaxConfigTime == 3

\* the chain with detect_environment and collect_user_input waiting for each
\* other
CyclicTable ==
    << [id |-> "validate_prerequisites", dependencies |-> {}],
       [id |-> "detect_environment", dependencies |-> {"collect_user_input"}],
       [id |-> "collect_user_input", dependencies |-> {"detect_environment"}] >>

\* the chain with detect_environment waiting for an id that is not declared
DanglingTable ==
    << [id |-> "validate_prerequisites", dependencies |-> {}],
       [id |-> "detect_environment", dependencies |-> {"validate_prereqs"}],
       [id |-> "collect_user_input", dependencies |-> {"detect_environment"}] >>

InvalidTables == {CyclicTable, DanglingTable}

\* the declared dependencies of the step id of the table
DepsOf(table, id) ==
    UNION {table[i].dependencies : i \in {j \in DOMAIN table : table[j].id = id}}

\* the ids that id waits for over at most n dependency links
RECURSIVE Ancestors(_, _, _)
Ancestors(table, id, n) ==
    IF n = 0 THEN {}
    ELSE DepsOf(table, id) \cup
         UNION {Ancestors(table, dep_id, n - 1) : dep_id \in DepsOf(table, id)}

\* no step waits for an undeclared id, and none waits for itself
WellFormed(table) ==
    /\ \A id \in Ids(table) : DepsOf(table, id) \subseteq Ids(table)
    /\ \A id \in Ids(table) : id \notin Ancestors(table, id, Len(table))

InitConfig ==
    /\ step_definitions \in InvalidTables
    /\ InitTracker
    /\ exec = NoRun
    /\ scenario = Off

NextConfig ==
    \/ \E step_id \in CallIds : StartStepW(step_id, "ok", MaxConfigTime) /\ NoExec
    \/ \E step_id \in CallIds, result_data \in ResultArgs :
          CompleteStepW(step_id, result_data, "ok", MaxConfigTime) /\ NoExec
    \/ \E step_id \in CallIds, m \in ErrorMessages :
          FailStepW(step_id, m, "ok", MaxConfigTime) /\ NoExec
    \/ GetNextStep /\ NoExec

SpecConfig == InitConfig /\ [][NextConfig]_vars

----------------------------------------------------------------------------
(* Properties *)

StepIds == DOMAIN steps

InProgressSteps == {id \in StepIds : steps[id].status = IN_PROGRESS}

\* a dependency counts as satisfied when it is COMPLETED or SKIPPED
Satisfied(S, dep_id) == S[dep_id].status \in {COMPLETED, SKIPPED}

AllSatisfied(S, step_id) == \A dep_id \in S[step_id].dependencies : Satisfied(S, dep_id)

\* the positions of the table whose step may run next
EligiblePositions(table, S) ==
    {i \in DOMAIN table :
        /\ S[table[i].id].status \in {PENDING, FAILED}
        /\ AllSatisfied(S, table[i].id)}

\* the first step in declaration order that may run next
FirstEligible(table, S) ==
    LET E == EligiblePositions(table, S)
    IN IF E = {} THEN "None"
       ELSE table[CHOOSE i \in E : \A j \in E : i <= j].id

\* a new tracker built from the file holds exactly the steps S
Persisted(f, S) ==
    /\ f # None
    /\ f[1].parses
    /\ _load_progress(_initialize_steps(step_definitions), f) = S

\* the file was written to its end and holds, for every step, what S holds
FileHolds(f, S) ==
    /\ f # None
    /\ f[1].parses
    /\ DOMAIN f[1].steps = DOMAIN S
    /\ \A id \in DOMAIN S : f[1].steps[id] = StepDict(S[id])

\* the steps that declare B as a dependency and are PENDING or FAILED
WaitingOn(S, B) ==
    {id \in DOMAIN S : B \in S[id].dependencies /\ S[id].status \in {PENDING, FAILED}}

\* C1: get_next_step never returns a step that has a dependency whose
\* status is not COMPLETED or SKIPPED.
C1_NextStepDependenciesSatisfied ==
    (last.op = "get_next_step" /\ last.ret # "None") =>
        \A dep_id \in steps[last.ret].dependencies :
            steps[dep_id].status \in {COMPLETED, SKIPPED}

C1_Witness ==
    /\ last.op = "get_next_step"
    /\ last.ret # "None"
    /\ \E dep_id \in steps[last.ret].dependencies : steps[dep_id].status = SKIPPED
    /\ \E dep_id \in steps[last.ret].dependencies : steps[dep_id].status = COMPLETED

\* C2: in every reachable state at most one step has status IN_PROGRESS.
C2_AtMostOneInProgress == Cardinality(InProgressSteps) <= 1

\* C3: a step's status changes to IN_PROGRESS only in a state where every
\* one of its dependencies is COMPLETED or SKIPPED.
C3_StartOnlyWithDependencies ==
    [][\A id \in StepIds :
          (steps[id].status # IN_PROGRESS /\ steps'[id].status = IN_PROGRESS) =>
              AllSatisfied(steps, id)]_vars

C3_Witness ==
    /\ last.op = "start_step"
    /\ last.ret = "True"
    /\ steps[last.id].status = IN_PROGRESS
    /\ steps[last.id].dependencies # {}
    /\ \A dep_id \in steps[last.id].dependencies : steps[dep_id].status = COMPLETED

\* C4: get_next_step returns the first step in declaration order that is
\* PENDING or FAILED with all dependencies COMPLETED or SKIPPED, returns
\* none exactly when there is no such step, and changes no state.
C4_NextStepIsFirstEligible ==
    [][last'.op = "get_next_step" =>
          /\ last'.ret = FirstEligible(step_definitions, steps)
          /\ UNCHANGED <<step_definitions, steps, current_step, file, clock>>]_vars

\* an earlier declared step is passed over because it is blocked
C4_Witness ==
    /\ last.op = "get_next_step"
    /\ \E i, j \in DOMAIN step_definitions :
          /\ i < j
          /\ step_definitions[j].id = last.ret
          /\ steps[step_definitions[i].id].status \in {PENDING, FAILED}

\* C5: start_step on a step that is COMPLETED, or that has a dependency
\* that is not satisfied, returns false and leaves every step, current_step
\* and the file unchanged.
C5_RejectedStartChangesNothing ==
    [][\A id \in StepIds :
          (/\ last'.op = "start_step"
           /\ last'.id = id
           /\ (steps[id].status = COMPLETED \/ ~AllSatisfied(steps, id))) =>
              /\ last'.ret = "False"
              /\ UNCHANGED <<steps, current_step, file>>]_vars

C5_Witness ==
    /\ last.op = "start_step"
    /\ last.ret = "False"
    /\ steps[last.id].status = COMPLETED
    /\ AllSatisfied(steps, last.id)
    /\ file # None

\* C6: start_step returns true and sets IN_PROGRESS for every step that is
\* not COMPLETED and whose dependencies are all COMPLETED or SKIPPED.
C6_StartAcceptsSatisfiedStep ==
    [][\A id \in StepIds :
          (/\ last'.op = "start_step"
           /\ last'.id = id
           /\ steps[id].status # COMPLETED
           /\ AllSatisfied(steps, id)) =>
              /\ last'.ret = "True"
              /\ steps'[id].status = IN_PROGRESS]_vars

\* C7: start_step on a step that is IN_PROGRESS or COMPLETED returns false
\* and changes neither the steps nor the file.
C7_StartIsIdempotent ==
    [][\A id \in StepIds :
          (/\ last'.op = "start_step"
           /\ last'.id = id
           /\ steps[id].status \in {IN_PROGRESS, COMPLETED}) =>
              /\ last'.ret = "False"
              /\ UNCHANGED <<steps, file>>]_vars

\* C8: complete_step takes effect only on an IN_PROGRESS step (COMPLETED,
\* result_data stored, end time recorded, persisted); in any other status
\* it raises nothing and changes neither the steps, current_step nor the file.
C8_CompleteOnlyInProgress ==
    [][\A id \in StepIds :
          (last'.op = "complete_step" /\ last'.id = id) =>
              /\ last'.ret = "None"
              /\ IF steps[id].status = IN_PROGRESS
                 THEN /\ steps'[id].status = COMPLETED
                      /\ steps'[id].result_data = last'.arg
                      /\ clock' > clock
                      /\ steps'[id].end_time = Some(clock')
                      /\ Persisted(file', steps')
                 ELSE UNCHANGED <<steps, current_step, file>>]_vars

\* complete_step was called on a FAILED step that holds the data of an
\* earlier completion
C8_Witness ==
    /\ last.op = "complete_step"
    /\ steps[last.id].status = FAILED
    /\ steps[last.id].result_data # None
    /\ steps[last.id].error_message # None

\* C9: fail_step sets FAILED from any prior status, stores the message,
\* records an end time and persists.
C9_FailFromAnyStatus ==
    [][\A id \in StepIds :
          (last'.op = "fail_step" /\ last'.id = id) =>
              /\ steps'[id].status = FAILED
              /\ steps'[id].error_message = last'.arg
              /\ clock' > clock
              /\ steps'[id].end_time = Some(clock')
              /\ Persisted(file', steps')]_vars

\* fail_step was called on a step that had been completed
C9_Witness ==
    /\ last.op = "fail_step"
    /\ steps[last.id].status = FAILED
    /\ steps[last.id].result_data # None
    /\ steps[last.id].end_time = Some(clock)

\* C10: while B is FAILED and C depends on B, get_next_step does not
\* return C and start_step(C) is rejected.
C10_FailedDependencyBlocks ==
    [][\A b, c \in StepIds :
          (steps[b].status = FAILED /\ b \in steps[c].dependencies) =>
              /\ (last'.op = "get_next_step" => last'.ret # c)
              /\ (last'.op = "start_step" /\ last'.id = c) =>
                    (last'.ret = "False" /\ steps'[c] = steps[c])]_vars

C10_Witness ==
    /\ last.op = "start_step"
    /\ last.ret = "False"
    /\ \E b \in steps[last.id].dependencies : steps[b].status = FAILED
    /\ \A b \in steps[last.id].dependencies : steps[b].status \in {FAILED, COMPLETED}

\* C11 (as amended): on a fresh three step chain get_next_step returns
\* validate; after start and complete(validate, {}) it returns configure;
\* after start and fail(configure, "bad input") it returns configure again
\* and is_setup_complete is false; after start and
\* complete(configure, {"env": "prod"}) it returns deploy.
C11_ScenarioReturns ==
    /\ scenario = 1 => last.ret = Validate
    /\ scenario = 4 => last.ret = Configure
    /\ scenario = 7 => last.ret = Configure
    /\ scenario = 8 => last.ret = "False"
    /\ scenario = 11 => last.ret = Deploy

C11_Witness ==
    /\ scenario = Len(ScenarioScript)
    /\ steps[Configure].result_data = Some({<<"env", "prod">>})

\* C11 (as stated): on a fresh store, after complete(validate, {}) the next
\* get_next_step returns configure.
C11_CompleteWithoutStart ==
    [][(/\ last.op = "complete_step"
        /\ last.id = Validate
        /\ last.arg = Some({})
        /\ steps[Configure] = SetupStep(Configure, {Validate})
        /\ steps[Deploy] = SetupStep(Deploy, {Configure})
        /\ last'.op = "get_next_step") =>
            last'.ret = Configure]_vars

\* C12: reset_step(B) from any status leaves B PENDING with start_time,
\* end_time, duration, error_message and result_data cleared, and the file
\* holds that state; right after it no PENDING or FAILED step that depends
\* on B is returned by get_next_step or accepted by start_step.
\* reset_all_steps leaves every step so, and the file holds that state.
C12_ResetReturnsToPending ==
    [][/\ last'.op = "reset_step" =>
            /\ steps'[last'.id] = _initialize_steps(step_definitions)[last'.id]
            /\ FileHolds(file', steps')
            /\ \A id \in WaitingOn(steps', last'.id) :
                  /\ get_next_step(step_definitions, steps') # id
                  /\ start_step(steps', current_step', id, clock' + 1).ret = "False"
       /\ last'.op = "reset_all_steps" =>
            /\ steps' = _initialize_steps(step_definitions)
            /\ FileHolds(file', steps')]_vars

\* a COMPLETED step with a result was reset while a FAILED step, eligible
\* until then, depends on it
C12_Witness ==
    /\ last.op = "reset_step"
    /\ steps[last.id].status = PENDING
    /\ \E id \in WaitingOn(steps, last.id) :
          /\ steps[id].status = FAILED
          /\ \A dep_id \in steps[id].dependencies \ {last.id} :
                steps[dep_id].status = COMPLETED

\* C13: saving the steps in memory and loading the file into a freshly
\* initialised tracker with the same table gives back, for every step, the
\* same status, start_time, end_time, duration, error_message and
\* result_data.
C13_SaveLoadRoundTrip ==
    LET loaded == _load_progress(_initialize_steps(step_definitions),
                                 _save_progress(step_definitions, steps, current_step))
    IN /\ DOMAIN loaded = DOMAIN steps
       /\ \A id \in DOMAIN steps : loaded[id] = steps[id]

\* a tracker was built from a file that holds an IN_PROGRESS step and a
\* COMPLETED step with its result
C13_Witness ==
    /\ last.op = "__init__"
    /\ FileHolds(file, steps)
    /\ \E id \in StepIds : steps[id].status = IN_PROGRESS /\ steps[id].start_time # None
    /\ \E id \in StepIds : steps[id].status = COMPLETED /\ steps[id].result_data # None

\* C16: every start_step, complete_step, fail_step, skip_step and reset_step
\* that changes a step has, when it returns, written the file so that it
\* holds the status, timestamps, error_message and result_data of every step
\* as they are in memory.
C16_TransitionsArePersisted ==
    [][(last'.op \in TransitionOps /\ steps' # steps) =>
            FileHolds(file', steps')]_vars

C16_Witness ==
    /\ last.op = "skip_step"
    /\ FileHolds(file, steps)
    /\ \E id \in StepIds : steps[id].status = COMPLETED

\* the ids of the entries of a file that parses
SavedIds(f) == IF f = None \/ ~f[1].parses THEN {} ELSE DOMAIN f[1].steps

\* the file without the entries of the ids that the table does not declare
WithoutUnknown(f, table) ==
    IF f = None \/ ~f[1].parses THEN f
    ELSE LET Declared(id) == id \in Ids(table)
         IN Some([f[1] EXCEPT !.order = SelectSeq(@, Declared),
                              !.steps = [id \in DOMAIN @ \cap Ids(table) |-> @[id]]])

\* C14: after a load the step ids are those of the definition table; a
\* declared id that the file does not hold is PENDING with no timestamps,
\* error or result; and the entries of undeclared ids change nothing: the
\* load gives what it gives on the file without them.
C14_LoadKeepsTableIds ==
    [][last'.op = "__init__" =>
        LET fresh == _initialize_steps(step_definitions')
        IN /\ DOMAIN steps' = Ids(step_definitions')
           /\ \A id \in Ids(step_definitions') \ SavedIds(file) :
                 steps'[id] = fresh[id]
           /\ steps' = _load_progress(fresh, WithoutUnknown(file, step_definitions'))]_vars

\* a tracker was built on a file that holds an undeclared id, lacks a
\* declared one and holds a declared step that had left PENDING
C14_Witness ==
    /\ last.op = "__init__"
    /\ SavedIds(file) \ StepIds # {}
    /\ StepIds \ SavedIds(file) # {}
    /\ \E id \in StepIds \cap SavedIds(file) : steps[id].status # PENDING

\* the file does not parse, or the entry of a declared step has a status
\* that is no StepStatus value
Malformed(f, table) ==
    /\ f # None
    /\ \/ ~f[1].parses
       \/ \E id \in DOMAIN f[1].steps \cap Ids(table) :
             ~IsStatusValue(f[1].steps[id].status)

\* C15: a load of a malformed file leaves every step PENDING.
C15_MalformedFileLoadsAllPending ==
    [][(last'.op = "__init__" /\ Malformed(file, step_definitions')) =>
            \A id \in DOMAIN steps' : steps'[id].status = PENDING]_vars

\* C17: a process killed inside _save_progress, with a state saved before,
\* leaves the file as it was before the call or as the completed write of
\* the new state.
C17_SaveIsAtomic ==
    [][(last'.op = "killed_in_save" /\ FileHolds(file, steps)) =>
        \/ file' = file
        \/ \E op \in TransitionOps :
              file' = _save_progress(step_definitions,
                                     TransitionOf(op, last'.id).steps,
                                     TransitionOf(op, last'.id).current_step)]_vars

\* C18: when the write inside a transition fails, with a state saved before,
\* the call returns with the change made in memory and the file keeps its
\* previous content.
C18_FailedWriteKeepsFile ==
    [][(last'.write \in {"open_fails", "dump_fails"} /\ FileHolds(file, steps)) =>
        /\ steps' = TransitionOf(last'.op, last'.id).steps
        /\ last'.ret \in {"True", "None"}
        /\ file' = file]_vars

\* C19: run_setup returns True only with every step COMPLETED or SKIPPED; in
\* particular not when get_next_step returned none with a step left over.
C19_SuccessOnlyWhenComplete ==
    (exec.pc = "done" /\ exec.returned = "True") => is_setup_complete(steps)

\* C20: a body that returns failure or raises is followed by fail_step for
\* that step and the end of the run with failure, after which the run makes
\* no call at all; a body that returns success is followed by complete_step
\* for that step, and only then by the next get_next_step.
C20_HaltOnFirstFailure ==
    [][/\ (exec.pc = "body" /\ exec'.outcome \in Halting) =>
            /\ last'.op = "fail_step"
            /\ last'.id = exec.next_step
            /\ steps'[exec.next_step].status = FAILED
            /\ exec'.pc = "done"
            /\ exec'.returned = "False"
       /\ (exec.pc = "body" /\ exec'.outcome = "success") =>
            /\ last'.op = "complete_step"
            /\ last'.id = exec.next_step
            /\ steps'[exec.next_step].status = COMPLETED
            /\ exec'.pc = "loop"
       /\ exec.pc = "done" => last'.op = "__init__"
       /\ last'.op = "get_next_step" => exec.pc = "loop"
       /\ last'.op = "start_step" => exec.pc = "start"]_vars

\* a run completed a step, went on, and halted on the failure of the next
C20_Witness ==
    /\ exec.pc = "done"
    /\ exec.outcome \in {"failure", "raises"}
    /\ last.op = "fail_step"
    /\ \E id \in StepIds : steps[id].status = COMPLETED
    /\ \E id \in StepIds : steps[id].status = PENDING

\* C21: every step that run_setup has started and is about to dispatch has a
\* branch in the dispatcher.
C21_DispatcherIsTotal ==
    exec.pc = "body" => exec.next_step \in Dispatched

\* C22: in a run from a fresh store, a step whose body did not return
\* failure, raise or get interrupted is COMPLETED and the loop goes on to
\* the next step, up to the return of success with every step COMPLETED.
C22_SuccessfulBodiesComplete ==
    [][/\ (exec.pc = "body" /\ exec'.outcome \notin {"failure", "raises", "interrupt"}) =>
            /\ steps'[exec.next_step].status = COMPLETED
            /\ exec'.pc = "loop"
       /\ (exec.pc = "loop" /\ exec'.pc = "done" /\ exec'.returned = "True"
              /\ \A id \in StepIds : steps[id].status # IN_PROGRESS) =>
            is_setup_complete(steps')]_vars

\* the first step, in the declared order from position i on, that is neither
\* COMPLETED nor SKIPPED
RECURSIVE FirstUnfinishedFrom(_, _, _)
FirstUnfinishedFrom(table, S, i) ==
    IF i > Len(table) THEN "None"
    ELSE IF S[table[i].id].status \notin {COMPLETED, SKIPPED} THEN table[i].id
         ELSE FirstUnfinishedFrom(table, S, i + 1)

\* the store that the next process loads
NextLoad == _load_progress(_initialize_steps(step_definitions), file)

\* C23: over the runs and restarts of the executor a COMPLETED step stays as
\* it is: get_next_step does not return it, no start_step on it succeeds,
\* and start_step called on it would return False and change nothing.
C23_CompletedNeverRepeated ==
    [][\A id \in StepIds :
        steps[id].status = COMPLETED =>
            /\ steps'[id] = steps[id]
            /\ ~(last'.op = "get_next_step" /\ last'.ret = id)
            /\ ~(last'.op = "start_step" /\ last'.id = id /\ last'.ret = "True")
            /\ start_step(steps, current_step, id, Now) =
                  Outcome("False", steps, current_step, FALSE)]_vars

\* a later run, after a failure and a restart, has started a step again
\* while an earlier step is COMPLETED
C23_Witness ==
    /\ exec.pc = "body"
    /\ steps[exec.next_step].start_time = Some(5)
    /\ \E id \in StepIds : steps[id].status = COMPLETED /\ steps[id].end_time = Some(2)

\* C24: the first get_next_step of a run on a saved store returns the first
\* step in declaration order that is not COMPLETED or SKIPPED, a step left
\* IN_PROGRESS included.
C24_ResumeAtFirstUnfinished ==
    [][(last.op = "__init__" /\ file # None /\ last'.op = "get_next_step") =>
            last'.ret = FirstUnfinishedFrom(step_definitions, steps, 1)]_vars

\* C25: when a run has halted on the failure of step X, X is what the next
\* process gets from get_next_step first, and its start_step is accepted.
C25_FailedStepRetriedFirst ==
    (exec.pc = "done" /\ exec.outcome \in Halting) =>
        /\ get_next_step(step_definitions, NextLoad) = exec.next_step
        /\ start_step(NextLoad, None, exec.next_step, Now).ret = "True"

\* the first step of the chain is running with the third reading of the
\* clock as its start time: it was started, failed, and started again by
\* the next run
C25_Witness ==
    /\ step_definitions = ChainTable
    /\ exec.pc = "body"
    /\ exec.next_step = Validate
    /\ steps[Validate].start_time = Some(3)

\* C26: on resume the configuration is restored from the loaded store before
\* the components are initialised (it is there even when they fail) and
\* before any step is started, and the restoration leaves every step as
\* loaded and the file as it was.
C26_RestoreIsEarlyAndPure ==
    [][(last'.op = "__init__" /\ exec'.resume) =>
            /\ exec'.config = _restore_config_from_progress(step_definitions, NextLoad)
            /\ steps' = NextLoad
            /\ file' = file
            /\ current_step' = None
            /\ exec'.pc \in {"loop", "done"}]_vars

\* a resumed run whose components failed to initialise returned with the
\* configuration restored
C26_Witness ==
    /\ last.op = "__init__"
    /\ exec.resume
    /\ exec.pc = "done"
    /\ exec.returned = "False"
    /\ exec.config # {}

\* the entry p of a result_data is in the execution context: a saved config
\* is part of self.config, any other value is held by self.config or
\* self.created_resources
InContext(p) ==
    IF p[1] = "config" THEN p[2] \subseteq exec.config
    ELSE \E q \in exec.config \cup exec.created_resources : q[2] = p[2]

ResultOnDisk(f, id, rd) ==
    /\ f # None
    /\ f[1].parses
    /\ id \in DOMAIN f[1].steps
    /\ f[1].steps[id].result_data = Some(ToJson(rd[1]))

\* C28 (as amended): the result_data that complete_step attached to a step
\* stays the same in memory and in the file over every later call and
\* reload, other than reset_step of the step, reset_all_steps, the removal
\* of the progress file and a later complete_step of the same step.
C28_ResultDataRetainedUnlessReplaced ==
    [][\A id \in StepIds :
        (/\ steps[id].result_data # None
         /\ ~(last'.op \in {"reset_step", "complete_step"} /\ last'.id = id)
         /\ last'.op \notin {"reset_all_steps", "cleanup_progress_file"}) =>
            /\ steps'[id].result_data = steps[id].result_data
            /\ ResultOnDisk(file', id, steps[id].result_data)]_vars

\* a completed step was skipped afterwards and still has its result, in
\* memory and in the file
C28_Witness ==
    /\ last.op = "skip_step"
    /\ steps[last.id].status = SKIPPED
    /\ steps[last.id].result_data # None
    /\ ResultOnDisk(file, last.id, steps[last.id].result_data)

\* C28 (as stated): the result_data that complete_step attached to a step
\* stays the same in memory and in the file over every later call and
\* reload other than reset_step of the step and reset_all_steps.
C28_ResultDataRetained ==
    [][\A id \in StepIds :
        (/\ steps[id].result_data # None
         /\ ~(last'.op = "reset_step" /\ last'.id = id)
         /\ last'.op # "reset_all_steps") =>
            /\ steps'[id].result_data = steps[id].result_data
            /\ ResultOnDisk(file', id, steps[id].result_data)]_vars

\* C29: a step has an error_message only when its status is FAILED.
C29_ErrorMessageOnlyWhenFailed ==
    \A id \in StepIds :
        steps[id].error_message # None => steps[id].status = FAILED

\* the calls that assign a status
StatusOps ==
    {"start_step", "complete_step", "fail_step", "skip_step", "reset_step",
     "reset_all_steps"}

\* the lifecycle: the change of a status from old to new by the call op
Permitted(old, new, op) ==
    \/ old \in {PENDING, FAILED} /\ new = IN_PROGRESS /\ op = "start_step"
    \/ old = IN_PROGRESS /\ new = COMPLETED /\ op = "complete_step"
    \/ new = FAILED /\ op = "fail_step"
    \/ old = PENDING /\ new = SKIPPED /\ op = "skip_step"
    \/ new = PENDING /\ op \in {"reset_step", "reset_all_steps"}

\* C30: every change that a tracker call makes to the status of a step is a
\* permitted lifecycle transition, and no call gives an IN_PROGRESS step a
\* new start time.
C30_OnlyLifecycleTransitions ==
    [][\A id \in StepIds :
        last'.op \in StatusOps =>
            /\ steps'[id].status # steps[id].status =>
                  Permitted(steps[id].status, steps'[id].status, last'.op)
            /\ (steps[id].status = IN_PROGRESS /\ steps'[id].status = IN_PROGRESS) =>
                  steps'[id].start_time = steps[id].start_time]_vars

\* C31: with a table that has a cyclic dependency or a dependency on an
\* undeclared id, no step is ever started and get_next_step gives no answer
\* (neither a step nor none).
C31_InvalidTableRunsNothing ==
    ~WellFormed(step_definitions) =>
        /\ \A id \in StepIds : steps[id].status = PENDING
        /\ last.op = "get_next_step" => last.ret = "KeyError"

\* C32: in every state each step has the id it is keyed by and the
\* dependencies that the definition table declares for it, also after a load
\* of a file that was written under another table.
C32_DefinitionsNeverMutated ==
    \A id \in StepIds :
        /\ steps[id].id = id
        /\ steps[id].dependencies = DepsOf(step_definitions, id)

\* C33: a run of the executor that has ended, however it ended, has shown
\* the final report.
C33_FinalReportOnEveryExit ==
    exec.pc = "done" => exec.reported

\* C34: in the loop of run_setup, a start_step that returned False is not
\* followed by a get_next_step that returns the same step again, the store
\* being as it was.
C34_RejectedStepNotOfferedAgain ==
    [][(/\ last.op = "start_step"
        /\ last.ret = "False"
        /\ last'.op = "get_next_step"
        /\ steps' = steps) =>
            last'.ret # last.id]_vars

\* C35: for a table without cycles and undeclared dependencies, when
\* get_next_step returns none and no step is IN_PROGRESS, every step is
\* COMPLETED or SKIPPED: a FAILED step alone never gives none.
C35_NoneMeansCompleteOrRunning ==
    (/\ WellFormed(step_definitions)
     /\ get_next_step(step_definitions, steps) = "None"
     /\ InProgressSteps = {}) =>
        is_setup_complete(steps)

\* get_next_step returned none with nothing IN_PROGRESS, after steps were
\* completed and skipped
C35_Witness ==
    /\ last.op = "get_next_step"
    /\ last.ret = "None"
    /\ InProgressSteps = {}
    /\ \E id \in StepIds : steps[id].status = COMPLETED
    /\ \E id \in StepIds : steps[id].status = SKIPPED

C37_ContextRestoredBeforeDispatch ==
    exec.pc = "body" =>
        _restore_config_from_progress(step_definitions, steps) \subseteq exec.config

\* C38: start_step, complete_step, fail_step, skip_step and reset_step of a
\* step change no field of any other step; in particular a FAILED step stays
\* FAILED under the calls made on other steps.
C38_CallsTouchOnlyTheirStep ==
    [][last'.op \in TransitionOps =>
        \A other \in StepIds \ {last'.id} :
            /\ steps'[other] = steps[other]
            /\ steps[other].status = FAILED => steps'[other].status = FAILED]_vars

\* a step was reset while a step that waits for it is FAILED and holds the
\* error and end time of the fail_step that came last, after an earlier call
C38_Witness ==
    /\ last.op = "reset_step"
    /\ steps[last.id].status = PENDING
    /\ clock >= 2
    /\ \E other \in StepIds \ {last.id} :
          /\ last.id \in steps[other].dependencies
          /\ steps[other].status = FAILED
          /\ steps[other].error_message # None
          /\ steps[other].end_time = Some(clock)

\* C39: current_step names a step that is IN_PROGRESS when there is one and
\* is none otherwise, and after a transition call or reset_all_steps has
\* returned the file holds the current_step that is in memory.
C39_CurrentStepIsTheRunningStep ==
    /\ InProgressSteps # {} =>
          (current_step # None /\ current_step[1] \in InProgressSteps)
    /\ InProgressSteps = {} => current_step = None
    /\ (/\ last.op \in TransitionOps \cup {"reset_all_steps"}
        /\ file # None
        /\ file[1].parses) =>
            file[1].current_step = current_step

====
